---- MODULE Spec2Model ----
(***************************************************************************)
(* Model of CloudModel.ipynb: the decibel/linear conversions, the          *)
(* bare-soil model (Champion 1996), the cloud model (Attema, Ulaby 1978)   *)
(* and the two slider-driven plots.                                        *)
(*                                                                         *)
(* Numbers.  The notebook computes with numpy float64.  Here a number is   *)
(* a decimal floating-point value m * 10^e with an 8-digit mantissa and    *)
(* rounded arithmetic, or one of the IEEE special values nan, +inf,        *)
(* -inf.  cos, exp, log10 and power are computed by series from the four   *)
(* basic operations, so every conversion is really carried out and two     *)
(* quantities that are equal over the reals agree only up to rounding.     *)
(* The exponent e is not bounded: the overflow and underflow of float64    *)
(* (above 1e308, below 1e-323) are not modelled, and the properties are    *)
(* checked for inputs of ordinary magnitude.                               *)
(* An array is [k |-> "arr", v |-> <<numbers>>]; every numpy operation     *)
(* broadcasts over it element by element.                                  *)
(***************************************************************************)
EXTENDS Integers, Sequences, FiniteSets, TLC

(***************************************************************************)
(* Decimal floating point                                                  *)
(***************************************************************************)
H == 10^4
B == H * H
Lo == B \div 10

Zero == [k |-> "fin", m |-> 0, e |-> 0]
NaN == [k |-> "nan", m |-> 0, e |-> 0]
PInf == [k |-> "pinf", m |-> 0, e |-> 0]
NInf == [k |-> "ninf", m |-> 0, e |-> 0]

IsFinite(x) == x.k = "fin"
IsNaN(x) == x.k = "nan"
IsInf(x) == x.k \in {"pinf", "ninf"}

AbsInt(n) == IF n < 0 THEN -n ELSE n
SgnInt(n) == IF n < 0 THEN -1 ELSE IF n = 0 THEN 0 ELSE 1

RECURSIVE NormPos(_, _)
NormPos(m, e) ==
    IF m >= B THEN NormPos((m + 5) \div 10, e + 1)
    ELSE IF m < Lo THEN NormPos(m * 10, e - 1)
    ELSE [k |-> "fin", m |-> m, e |-> e]

\* the number s * m * 10^e for a sign s and a magnitude 0 <= m < 2^31
Fin(s, m, e) ==
    IF m = 0 \/ s = 0 THEN Zero
    ELSE LET n == NormPos(m, e) IN [k |-> "fin", m |-> s * n.m, e |-> n.e]

Dec(m, e) == Fin(SgnInt(m), AbsInt(m), e)
FromInt(n) == Dec(n, 0)

One == FromInt(1)
Ten == FromInt(10)

Sign(x) ==
    CASE x.k = "pinf" -> 1
      [] x.k = "ninf" -> -1
      [] x.k = "nan" -> 0
      [] OTHER -> SgnInt(x.m)

InfOf(s) == IF s > 0 THEN PInf ELSE IF s < 0 THEN NInf ELSE NaN

Neg(x) ==
    CASE x.k = "nan" -> NaN
      [] x.k = "pinf" -> NInf
      [] x.k = "ninf" -> PInf
      [] OTHER -> [k |-> "fin", m |-> -x.m, e |-> x.e]

Abs(x) == IF Sign(x) < 0 THEN Neg(x) ELSE x

\* a + b for finite a, b with a.e >= b.e and both nonzero (one guard digit)
AddAligned(a, b) ==
    LET d == a.e - b.e
        bm == IF d > 9 THEN 0 ELSE SgnInt(b.m) * (AbsInt(b.m) \div (10^(d - 1)))
        s == IF d = 0 THEN a.m + b.m ELSE a.m * 10 + bm
    IN Fin(SgnInt(s), AbsInt(s), IF d = 0 THEN a.e ELSE a.e - 1)

Add(x, y) ==
    CASE x.k = "nan" \/ y.k = "nan" -> NaN
      [] IsInf(x) /\ IsInf(y) -> IF x.k = y.k THEN x ELSE NaN
      [] IsInf(x) -> x
      [] IsInf(y) -> y
      [] x.m = 0 -> y
      [] y.m = 0 -> x
      [] OTHER -> IF x.e >= y.e THEN AddAligned(x, y) ELSE AddAligned(y, x)

Sub(x, y) == Add(x, Neg(y))

Mul(x, y) ==
    CASE x.k = "nan" \/ y.k = "nan" -> NaN
      [] IsInf(x) \/ IsInf(y) -> InfOf(Sign(x) * Sign(y))
      [] OTHER ->
           LET a == AbsInt(x.m)
               b == AbsInt(y.m)
               a1 == a \div H
               a0 == a % H
               b1 == b \div H
               b0 == b % H
               hi == a1 * b1
               t == a1 * b0 + a0 * b1 + ((a0 * b0) \div H)
               s == SgnInt(x.m) * SgnInt(y.m)
           IN IF hi >= Lo
              THEN Fin(s, hi * 10 + (t \div 1000), x.e + y.e + 7)
              ELSE Fin(s, hi * 100 + (t \div 100), x.e + y.e + 6)

RECURSIVE LongDiv(_, _, _, _)
LongDiv(r, b, n, acc) ==
    IF n = 0 THEN acc
    ELSE LongDiv((r * 10) % b, b, n - 1, acc * 10 + ((r * 10) \div b))

Div(x, y) ==
    CASE x.k = "nan" \/ y.k = "nan" -> NaN
      [] IsInf(x) /\ IsInf(y) -> NaN
      [] IsInf(x) -> InfOf(Sign(x) * (IF Sign(y) < 0 THEN -1 ELSE 1))
      [] IsInf(y) -> Zero
      [] y.m = 0 -> InfOf(Sign(x))
      [] x.m = 0 -> Zero
      [] OTHER ->
           LET a == AbsInt(x.m)
               b == AbsInt(y.m)
               s == SgnInt(x.m) * SgnInt(y.m)
           IN IF a >= b
              THEN Fin(s, LongDiv(a % b, b, 8, a \div b), x.e - y.e - 8)
              ELSE Fin(s, LongDiv(a, b, 9, 0), x.e - y.e - 9)

\* x / n for a finite x and an integer 1 <= n <= 200
DivInt(x, n) == Fin(SgnInt(x.m), (AbsInt(x.m) * 10) \div n, x.e - 1)

\* x < y and x <= y as IEEE decides them: false as soon as a nan is involved
Lt(x, y) ==
    /\ x.k # "nan"
    /\ y.k # "nan"
    /\ x # y
    /\ \/ x.k = "ninf"
       \/ y.k = "pinf"
       \/ IsFinite(x) /\ IsFinite(y) /\ Sign(Sub(x, y)) < 0

Le(x, y) == x.k # "nan" /\ y.k # "nan" /\ (x = y \/ Lt(x, y))

Max(x, y) == IF Lt(x, y) THEN y ELSE x

\* the integer floor of a finite x with |x| < 10^9
IntFloor(x) ==
    IF x.e >= 0 THEN x.m * (10^(x.e))
    ELSE IF x.e < -8 THEN (IF x.m < 0 THEN -1 ELSE 0)
    ELSE x.m \div (10^(-x.e))

Scale10(x, n) == IF IsFinite(x) /\ x.m # 0 THEN [x EXCEPT !.e = @ + n] ELSE x

(***************************************************************************)
(* Elementary functions                                                    *)
(***************************************************************************)
Ln10 == Dec(23025851, -7)
Log10E == Dec(43429448, -8)
Sqrt10 == Dec(31622777, -7)
Root4of10 == Dec(17782794, -7)
PiNum == Dec(31415927, -7)

\* sum of the series acc + term + term*z/k + term*z^2/(k(k+1)) + ...
RECURSIVE ExpSeries(_, _, _, _)
ExpSeries(z, term, k, acc) ==
    LET next == Add(acc, term)
    IN IF next = acc \/ k > 40 THEN acc
       ELSE ExpSeries(z, DivInt(Mul(term, z), k), k + 1, next)

\* e^z for a finite z of moderate size
ExpSmall(z) == ExpSeries(z, One, 1, Zero)

Sq(x) == Mul(x, x)

\* 10^(n + f) for an integer n and a fraction 0 <= f < 1
Pow10Split(n, f) ==
    Scale10(Sq(Sq(ExpSmall(DivInt(Mul(f, Ln10), 4)))), n)

\* 10^y for a finite y of moderate size, from its integer floor n
Pow10Floor(y, n) == Pow10Split(n, Sub(y, FromInt(n)))

\* 10^y
Pow10(y) ==
    CASE y.k = "nan" -> NaN
      [] y.k = "pinf" -> PInf
      [] y.k = "ninf" -> Zero
      [] y.e > 1 -> IF y.m > 0 THEN PInf ELSE Zero
      [] OTHER -> Pow10Floor(y, IntFloor(y))

\* e^x
Exp(x) == Pow10(Mul(x, Log10E))

\* sum of t^(2j+1)/(2j+1), j = 0, 1, ...: pw is the current odd power of t
RECURSIVE AtanhSeries(_, _, _, _)
AtanhSeries(t2, pw, k, acc) ==
    LET next == Add(acc, DivInt(pw, k))
    IN IF next = acc \/ k > 60 THEN acc
       ELSE AtanhSeries(t2, Mul(pw, t2), k + 2, next)

\* 2 * atanh(t)
Atanh2(t) == Mul(FromInt(2), AtanhSeries(Sq(t), t, 1, Zero))

\* ln z for a finite z near 1
LnNear1(z) == Atanh2(Div(Sub(z, One), Add(z, One)))

\* z divided by c when c <= z
Reduce(z, c) == IF Le(c, z) THEN Div(z, c) ELSE z

\* the part of log10 z that Reduce(z, c) takes away, for log10 c = a
Reduced(z, c, a) == IF Le(c, z) THEN a ELSE Zero

\* a1 + log10 of r1, for r1 in [1, sqrt 10)
Log10Root(r1, a1) ==
    Add(Add(a1, Reduced(r1, Root4of10, Dec(25, -2))),
        Div(LnNear1(Reduce(r1, Root4of10)), Ln10))

\* log10 of a mantissa z in [1, 10)
Log10Mant(z) ==
    Log10Root(Reduce(z, Sqrt10), Reduced(z, Sqrt10, Dec(5, -1)))

Log10(x) ==
    CASE x.k = "nan" -> NaN
      [] x.k = "pinf" -> PInf
      [] x.k = "ninf" -> NaN
      [] x.m = 0 -> NInf
      [] x.m < 0 -> NaN
      [] OTHER -> Add(FromInt(x.e + 7), Log10Mant([x EXCEPT !.e = -7]))

\* sum of (-1)^j t^(2j)/(2j)!, j = 0, 1, ...
RECURSIVE CosSeries(_, _, _, _)
CosSeries(t2, term, k, acc) ==
    LET next == Add(acc, term)
    IN IF next = acc \/ k > 60 THEN acc
       ELSE CosSeries(t2, Neg(DivInt(Mul(term, t2), k * (k + 1))),
                      k + 2, next)

Cos(x) == IF IsFinite(x) THEN CosSeries(Sq(x), One, 1, Zero) ELSE NaN

\* b ** p for floats: nan for a negative base (the exponents used are not
\* integers), 0 ** p is 0 for p > 0
Power(b, p) ==
    CASE b.k = "nan" \/ p.k = "nan" -> NaN
      [] Sign(p) = 0 -> One
      [] Sign(b) < 0 -> NaN
      [] Sign(b) = 0 -> IF Sign(p) > 0 THEN Zero ELSE PInf
      [] OTHER -> Pow10(Mul(p, Log10(b)))

(***************************************************************************)
(* numpy arrays and broadcasting                                           *)
(***************************************************************************)
Arr(v) == [k |-> "arr", v |-> v]
IsArr(x) == x.k = "arr"
At(x, i) == IF IsArr(x) THEN x.v[i] ELSE x
Shape(x, y) == IF IsArr(x) THEN DOMAIN x.v ELSE DOMAIN y.v

np_cos(x) ==
    IF IsArr(x) THEN Arr([i \in DOMAIN x.v |-> Cos(x.v[i])]) ELSE Cos(x)

np_exp(x) ==
    IF IsArr(x) THEN Arr([i \in DOMAIN x.v |-> Exp(x.v[i])]) ELSE Exp(x)

np_log10(x) ==
    IF IsArr(x) THEN Arr([i \in DOMAIN x.v |-> Log10(x.v[i])]) ELSE Log10(x)

np_power(x, y) ==
    IF IsArr(x) \/ IsArr(y)
    THEN Arr([i \in Shape(x, y) |-> Power(At(x, i), At(y, i))])
    ELSE Power(x, y)

np_add(x, y) ==
    IF IsArr(x) \/ IsArr(y)
    THEN Arr([i \in Shape(x, y) |-> Add(At(x, i), At(y, i))])
    ELSE Add(x, y)

np_sub(x, y) ==
    IF IsArr(x) \/ IsArr(y)
    THEN Arr([i \in Shape(x, y) |-> Sub(At(x, i), At(y, i))])
    ELSE Sub(x, y)

np_mul(x, y) ==
    IF IsArr(x) \/ IsArr(y)
    THEN Arr([i \in Shape(x, y) |-> Mul(At(x, i), At(y, i))])
    ELSE Mul(x, y)

np_div(x, y) ==
    IF IsArr(x) \/ IsArr(y)
    THEN Arr([i \in Shape(x, y) |-> Div(At(x, i), At(y, i))])
    ELSE Div(x, y)

\* np.linspace(start, stop, num) for num >= 2
np_linspace(start, stop, num) ==
    LET step == Div(Sub(stop, start), FromInt(num - 1))
    IN Arr([i \in 1..num |-> Add(start, Mul(FromInt(i - 1), step))])

np_deg2rad(x) == np_mul(x, Div(PiNum, FromInt(180)))

(***************************************************************************)
(* The notebook's functions                                                *)
(***************************************************************************)
\* C_theta = C1 + C2 * np.cos(theta) ** C3
C_theta(theta, C1, C2, C3) ==
    np_add(C1, np_mul(C2, np_power(np_cos(theta), C3)))

\* C_theta + D * mv for the cosine-model value C_theta
soil_moisture_term(C_theta_value, D, mv) ==
    np_add(C_theta_value, np_mul(D, mv))

\* the return expression with the moisture term subtracted
soil_moisture_term_minus(C_theta_value, D, mv) ==
    np_sub(C_theta_value, np_mul(D, mv))

\* bare_soil_model with the moisture term subtracted
bare_soil_model_minus(theta, mv) ==
    soil_moisture_term_minus(
        C_theta(theta, Dec(-292, -1), Dec(272, -1), Dec(28, -1)),
        Dec(28, -2), mv)

\* C1, C2, C3 = (-29.2, 27.2, 2.8) and D = 0.28
bare_soil_model(theta, mv) ==
    soil_moisture_term(
        C_theta(theta, Dec(-292, -1), Dec(272, -1), Dec(28, -1)),
        Dec(28, -2), mv)

\* dB2lin with the amplitude convention 10^(x/20)
dB2lin_amplitude(x) == np_power(Ten, np_div(x, FromInt(20)))

dB2lin(x) == np_power(Ten, np_div(x, Ten))

\* lin2dB with the amplitude convention 20*log10(x)
lin2dB_amplitude(x) == np_mul(FromInt(20), np_log10(x))

\* lin2dB with its argument clipped away from zero
lin2dB_clipped(x) ==
    LET floor == Dec(1, -10)
        clip(v) == IF Lt(v, floor) THEN floor ELSE v
        xc == IF IsArr(x) THEN Arr([i \in DOMAIN x.v |-> clip(x.v[i])])
              ELSE clip(x)
    IN np_mul(Ten, np_log10(xc))

lin2dB(x) == np_mul(Ten, np_log10(x))

\* y2 computed from the mean incidence angle of the series
two_way_attenuation_mean(theta, tau) ==
    LET n == Len(theta.v)
        sum[i \in 0..n] == IF i = 0 THEN Zero ELSE Add(sum[i - 1], theta.v[i])
        mean == IF IsArr(theta) THEN Div(sum[n], FromInt(n)) ELSE theta
    IN np_exp(np_div(np_mul(FromInt(-2), tau), np_cos(mean)))

\* y2 = np.exp(-2*tau/np.cos(theta))
two_way_attenuation(theta, tau) ==
    np_exp(np_div(np_mul(FromInt(-2), tau), np_cos(theta)))

\* the volume term with the factor (y2 - 1)
volume_term_signflip(theta, alpha, y2) ==
    np_mul(np_div(np_mul(np_mul(FromInt(3), alpha), np_cos(theta)), FromInt(4)),
           np_sub(y2, One))

\* ((3*alpha*np.cos(theta))/4 * (1-y2))
volume_term(theta, alpha, y2) ==
    np_mul(np_div(np_mul(np_mul(FromInt(3), alpha), np_cos(theta)), FromInt(4)),
           np_sub(One, y2))

\* (y2 * sigma0_soil_linear)
soil_term(y2, sigma0_soil_linear) == np_mul(y2, sigma0_soil_linear)

\* sigma0_can with the soil signal not attenuated
canopy_term_unattenuated(theta, alpha, y2, sigma0_soil_linear) ==
    np_add(volume_term(theta, alpha, y2), sigma0_soil_linear)

\* sigma0_can = volume term + soil term
canopy_term(theta, alpha, y2, sigma0_soil_linear) ==
    np_add(volume_term(theta, alpha, y2), soil_term(y2, sigma0_soil_linear))

\* the returned dict, from the values of the locals y2 and sigma0_soil_linear
cloud_model_return(theta, alpha, y2, sigma0_soil_linear) ==
    [Canopy |-> lin2dB(canopy_term(theta, alpha, y2, sigma0_soil_linear)),
     Volume |-> lin2dB(volume_term(theta, alpha, y2)),
     Soil |-> lin2dB(soil_term(y2, sigma0_soil_linear))]

cloud_model(theta, smc, alpha, tau) ==
    cloud_model_return(theta, alpha,
                       two_way_attenuation(theta, tau),
                       dB2lin(bare_soil_model(theta, smc)))

(***************************************************************************)
(* State                                                                   *)
(***************************************************************************)
VARIABLES
    args,       \* the inputs of the calls: [theta, smc, alpha, tau, x]
    out,        \* the last call: [fn, arg, val, x0]
    pc,         \* the next notebook cell to run
    globals,    \* the notebook's global names
    sliders,    \* FloatSlider object -> its value
    interacts,  \* the interactive widgets made by widgets.interact
    lines       \* Line2D object -> its y-data

vars == <<args, out, pc, globals, sliders, interacts, lines>>
callVars == <<args, out>>
uiVars == <<pc, globals, sliders, interacts, lines>>

None == [k |-> "none", m |-> 0, e |-> 0]

(***************************************************************************)
(* Bounds of the model                                                     *)
(***************************************************************************)
\* number of incidence angles (the notebook samples 100)
NThetas == 3
\* largest soil moisture value (the sliders go to 40)
MaxSmc == 2
\* slider positions above the minimum reached by tau and alpha (up to 19)
MaxSteps == 2

\* thetas = np.linspace(20, 75, 100); thetas_rad = np.deg2rad(thetas)
thetas_deg == np_linspace(FromInt(20), FromInt(75), NThetas)
thetas_rad_value == np_deg2rad(thetas_deg)

(***************************************************************************)
(* Calls of the four functions                                             *)
(***************************************************************************)
ThetaInputs == {np_deg2rad(FromInt(45)), thetas_rad_value}
SmcInputs == {FromInt(n) : n \in 0..MaxSmc}
AlphaInputs == {Zero, Dec(1, -1), One}
TauInputs == {Zero, Dec(1, -1), One}
\* values handed to dB2lin and lin2dB: decibel values, linear powers, an array
XInputs ==
    {Dec(-30, 0), Dec(-18613, -3), Dec(-1, -2), Zero, Dec(2, -3), One,
     Dec(75, -1), FromInt(1000), bare_soil_model(thetas_rad_value, One)}

\* the input tuples tried: every model input with x = 1, every x with the
\* model inputs of the notebook's first plot
Inputs ==
    [theta : ThetaInputs, smc : SmcInputs, alpha : AlphaInputs,
     tau : TauInputs, x : {One}]
        \cup [theta : {np_deg2rad(FromInt(45))}, smc : {One},
              alpha : {Dec(1, -1)}, tau : {Dec(1, -1)}, x : XInputs]

NoCall == [fn |-> "none", arg |-> None, val |-> None, x0 |-> None]

UIInit ==
    /\ pc = "cell6"
    /\ globals = [thetas_rad |-> None, smc |-> None, tau |-> None,
                  alpha |-> None, update |-> "none", smc_slider |-> "none",
                  tau_slider |-> "none", alpha_slider |-> "none"]
    /\ sliders = [w \in {} |-> None]
    /\ interacts = {}
    /\ lines = [line |-> None, sigma0_canopy_plot |-> None,
                sigma0_volume_plot |-> None, sigma0_soil_plot |-> None]

Init ==
    /\ args \in Inputs
    /\ out = NoCall
    /\ UIInit

Call_dB2lin ==
    /\ out' = [fn |-> "dB2lin", arg |-> args.x, val |-> dB2lin(args.x),
               x0 |-> args.x]
    /\ UNCHANGED <<args, uiVars>>

Call_lin2dB ==
    /\ out' = [fn |-> "lin2dB", arg |-> args.x, val |-> lin2dB(args.x),
               x0 |-> None]
    /\ UNCHANGED <<args, uiVars>>

\* lin2dB(dB2lin(x)): the value dB2lin returned is handed to lin2dB
Call_lin2dB_of_dB2lin ==
    /\ out.fn = "dB2lin"
    /\ out' = [fn |-> "lin2dB", arg |-> out.val, val |-> lin2dB(out.val),
               x0 |-> out.arg]
    /\ UNCHANGED <<args, uiVars>>

Call_bare_soil_model ==
    /\ out' = [fn |-> "bare_soil_model", arg |-> args,
               val |-> bare_soil_model(args.theta, args.smc), x0 |-> None]
    /\ UNCHANGED <<args, uiVars>>

Call_cloud_model ==
    /\ out' = [fn |-> "cloud_model", arg |-> args,
               val |-> cloud_model(args.theta, args.smc, args.alpha, args.tau),
               x0 |-> None]
    /\ UNCHANGED <<args, uiVars>>

Next ==
    \/ Call_dB2lin
    \/ Call_lin2dB
    \/ Call_lin2dB_of_dB2lin
    \/ Call_bare_soil_model
    \/ Call_cloud_model

Spec == Init /\ [][Next]_vars

(***************************************************************************)
(* The notebook's cells and the two interactive plots                      *)
(***************************************************************************)
\* FloatSlider(min=0, max=40, step=1): the values the model lets it take
SmcSliderValues == {FromInt(n) : n \in 0..MaxSmc}
\* FloatSlider(min=0.01, max=1, step=0.05)
StepSliderValues ==
    {Add(Dec(1, -2), Mul(FromInt(n), Dec(5, -2))) : n \in 0..MaxSteps}

SliderValues(w) ==
    IF w \in {"smc_slider@216", "smc_slider@360"} THEN SmcSliderValues
    ELSE StepSliderValues

\* line.set_ydata(y)
set_ydata_line(ln, y) == [ln EXCEPT !.line = y]

\* the three set_ydata calls with the entries of the dict cloud_model returned
set_ydata_cloud(ln, cloud_model_terms) ==
    [ln EXCEPT !.sigma0_canopy_plot = cloud_model_terms.Canopy,
               !.sigma0_volume_plot = cloud_model_terms.Volume,
               !.sigma0_soil_plot = cloud_model_terms.Soil]

\* def update(smc) of the bare-soil plot, called with keyword arguments kw on
\* the lines ln: a call with other keywords raises TypeError and changes nothing
update_smc(kw, ln) ==
    IF DOMAIN kw = {"smc"}
    THEN set_ydata_line(ln, bare_soil_model(globals.thetas_rad, kw.smc))
    ELSE ln

\* def update(tau, alpha, smc) of the cloud-model plot
update_tau_alpha_smc(kw, ln) ==
    IF DOMAIN kw = {"tau", "alpha", "smc"}
    THEN set_ydata_cloud(ln, cloud_model(globals.thetas_rad, kw.smc, kw.alpha,
                                         kw.tau))
    ELSE ln

\* a call of the function object f
Invoke(f, kw, ln) ==
    IF f = "update@212" THEN update_smc(kw, ln)
    ELSE IF f = "update@348" THEN update_tau_alpha_smc(kw, ln)
    ELSE ln

\* the function an interactive calls, looked up by the name update in the
\* globals g when the slider moves
Callee_by_name(i, g) == g.update

\* the function an interactive calls: the object handed to widgets.interact
Callee(i, g) == i.f

\* interactive.update: call the function with the sliders' current values
RunInteractive(i, g, sl, ln) ==
    Invoke(Callee(i, g), [name \in DOMAIN i.kw |-> sl[i.kw[name]]], ln)

\* thetas = np.linspace(20, 75, 100); thetas_rad = np.deg2rad(thetas)
RunCell6 ==
    /\ pc = "cell6"
    /\ globals' = [globals EXCEPT !.thetas_rad = thetas_rad_value]
    /\ pc' = "cell9"
    /\ UNCHANGED <<sliders, interacts, lines, callVars>>

\* the globals after the bare-soil cell: smc = 1, def update(smc), smc_slider
Cell9Globals(g) ==
    [g EXCEPT !.smc = One, !.update = "update@212",
              !.smc_slider = "smc_slider@216"]

\* smc_slider = FloatSlider(..., value=0)
Cell9Sliders(sl) ==
    [w \in DOMAIN sl \cup {"smc_slider@216"} |->
        IF w = "smc_slider@216" THEN Zero ELSE sl[w]]

\* widgets.interact(update, smc=smc_slider)
Cell9Interact(g) == [f |-> g.update, kw |-> [smc |-> g.smc_slider]]

\* the bare-soil plot: plot for smc = 1, define update, make the slider and
\* hand both to widgets.interact, which calls update once
RunCell9 ==
    /\ pc = "cell9"
    /\ globals' = Cell9Globals(globals)
    /\ sliders' = Cell9Sliders(sliders)
    /\ interacts' = interacts \cup {Cell9Interact(globals')}
    /\ lines' = RunInteractive(
                    Cell9Interact(globals'), globals', sliders',
                    set_ydata_line(lines, bare_soil_model(globals'.thetas_rad,
                                                          globals'.smc)))
    /\ pc' = "cell12"
    /\ UNCHANGED callVars

\* the globals after the cloud-model cell: tau = 0.1, alpha = 0.1, smc = 1,
\* def update(tau, alpha, smc) and the three sliders
Cell12Globals(g) ==
    [g EXCEPT !.tau = Dec(1, -1), !.alpha = Dec(1, -1), !.smc = One,
              !.update = "update@348", !.tau_slider = "tau_slider@358",
              !.alpha_slider = "alpha_slider@359",
              !.smc_slider = "smc_slider@360"]

\* the sliders of the cloud-model cell: value=0.1, value=0.1, value=0
Cell12Made == {"tau_slider@358", "alpha_slider@359", "smc_slider@360"}

Cell12Sliders(sl) ==
    [w \in DOMAIN sl \cup Cell12Made |->
        IF w = "smc_slider@360" THEN Zero
        ELSE IF w \in Cell12Made THEN Dec(1, -1)
        ELSE sl[w]]

\* widgets.interact(update, tau=tau_slider, alpha=alpha_slider,
\* smc=smc_slider)
Cell12Interact(g) ==
    [f |-> g.update,
     kw |-> [tau |-> g.tau_slider, alpha |-> g.alpha_slider,
             smc |-> g.smc_slider]]

\* the cloud-model plot: plot for tau = 0.1, alpha = 0.1, smc = 1, define
\* update, make the three sliders and hand them to widgets.interact
RunCell12 ==
    /\ pc = "cell12"
    /\ globals' = Cell12Globals(globals)
    /\ sliders' = Cell12Sliders(sliders)
    /\ interacts' = interacts \cup {Cell12Interact(globals')}
    /\ lines' = RunInteractive(
                    Cell12Interact(globals'), globals', sliders',
                    set_ydata_cloud(lines,
                                    cloud_model(globals'.thetas_rad,
                                                globals'.smc, globals'.alpha,
                                                globals'.tau)))
    /\ pc' = "done"
    /\ UNCHANGED callVars

\* the user moves slider w to v: the interactive observing w runs
SliderEvent(w, v) ==
    /\ w \in DOMAIN sliders
    /\ v # sliders[w]
    /\ sliders' = [sliders EXCEPT ![w] = v]
    /\ \E i \in interacts :
          /\ \E name \in DOMAIN i.kw : i.kw[name] = w
          /\ lines' = RunInteractive(i, globals, sliders', lines)
    /\ UNCHANGED <<pc, globals, interacts, callVars>>

InitUI ==
    /\ UIInit
    /\ args = [theta |-> np_deg2rad(FromInt(45)), smc |-> One,
               alpha |-> Dec(1, -1), tau |-> Dec(1, -1), x |-> One]
    /\ out = NoCall

NextUI ==
    \/ RunCell6
    \/ RunCell9
    \/ RunCell12
    \/ \E w \in {"smc_slider@216", "tau_slider@358", "alpha_slider@359",
                 "smc_slider@360"} :
          \E v \in SliderValues(w) : SliderEvent(w, v)

SpecUI == InitUI /\ [][NextUI]_vars

(***************************************************************************)
(* Properties of the four functions (checked under Spec)                   *)
(***************************************************************************)
Tol == Dec(1, -5)

\* equal up to the rounding of the arithmetic, relative to the larger value
CloseLin(x, y) ==
    \/ x = y
    \/ /\ IsFinite(x)
       /\ IsFinite(y)
       /\ Le(Abs(Sub(x, y)), Mul(Tol, Max(Abs(x), Abs(y))))

\* the same for decibel values, absolute below 1 dB
CloseDb(x, y) ==
    \/ x = y
    \/ /\ IsFinite(x)
       /\ IsFinite(y)
       /\ Le(Abs(Sub(x, y)), Mul(Tol, Max(One, Max(Abs(x), Abs(y)))))

\* the elements of a scalar or of an array
Elems(x) == IF IsArr(x) THEN x.v ELSE <<x>>

Keys == {"Canopy", "Volume", "Soil"}

\* 0 < theta < pi/2, 0 <= alpha <= 1, tau >= 0
InDomain(a) ==
    /\ \A i \in DOMAIN Elems(a.theta) :
          /\ Lt(Zero, Elems(a.theta)[i])
          /\ Lt(Elems(a.theta)[i], Div(PiNum, FromInt(2)))
    /\ Le(Zero, a.alpha)
    /\ Le(a.alpha, One)
    /\ Le(Zero, a.tau)

CloudCalled == out.fn = "cloud_model" /\ InDomain(args)

C4_MonotoneInMoisture ==
    (out.fn = "bare_soil_model" /\ InDomain(args)) =>
        \A mv2 \in SmcInputs \cup {Dec(-5, -1), Dec(15, -1), Dec(405, -1)} :
            Le(args.smc, mv2) =>
                \A i \in DOMAIN Elems(args.theta) :
                    Le(Elems(out.val)[i],
                       bare_soil_model(Elems(args.theta)[i], mv2))

C4_Witness ==
    /\ out.fn = "bare_soil_model"
    /\ InDomain(args)
    /\ args.smc = One
    /\ Lt(out.val, bare_soil_model(args.theta, Dec(15, -1)))

\* C5: for a sequence of N angles every output of cloud_model and the output
\* of bare_soil_model has exactly N values, and the value at index i is the
\* scalar model evaluated at theta[i].
C5_ShapeAndAlignment ==
    /\ (out.fn = "cloud_model" /\ IsArr(args.theta)) =>
          \A key \in Keys :
             /\ IsArr(out.val[key])
             /\ Len(out.val[key].v) = Len(args.theta.v)
             /\ \A i \in 1..Len(args.theta.v) :
                   out.val[key].v[i] =
                       cloud_model(args.theta.v[i], args.smc, args.alpha,
                                   args.tau)[key]
    /\ (out.fn = "bare_soil_model" /\ IsArr(args.theta)) =>
          /\ IsArr(out.val)
          /\ Len(out.val.v) = Len(args.theta.v)
          /\ \A i \in 1..Len(args.theta.v) :
                out.val.v[i] = bare_soil_model(args.theta.v[i], args.smc)

C5_Witness ==
    /\ out.fn = "cloud_model"
    /\ IsArr(args.theta)
    /\ Len(out.val.Canopy.v) = NThetas
    /\ out.val.Canopy.v[1] # out.val.Canopy.v[NThetas]
    /\ Lt(Zero, args.tau)

C7_ZeroVolumePropagates ==
    (CloudCalled /\ args.alpha = Zero) =>
        /\ DOMAIN out.val = Keys
        /\ \A i \in DOMAIN Elems(args.theta) :
              /\ Elems(out.val.Volume)[i] = NInf
              /\ Elems(out.val.Canopy)[i] = Elems(out.val.Soil)[i]
              /\ ~IsNaN(Elems(out.val.Canopy)[i])

C7_Witness ==
    /\ CloudCalled
    /\ args.alpha = Zero
    /\ Lt(Zero, args.tau)
    /\ IsArr(args.theta)
    /\ out.val.Volume.v[1] = NInf
    /\ IsFinite(out.val.Soil.v[1])

\* C9: the volume component of cloud_model is, in the linear domain,
\* (alpha/2) * (1 - gamma^2) with gamma = exp(-2*tau/cos(theta)).
C9_DocumentedVolume ==
    CloudCalled =>
        \A i \in DOMAIN Elems(args.theta) :
            LET th == Elems(args.theta)[i]
                gamma == Exp(Div(Mul(FromInt(-2), args.tau), Cos(th)))
                sigma0_v == Mul(Div(args.alpha, FromInt(2)),
                                Sub(One, Sq(gamma)))
            IN CloseLin(dB2lin(Elems(out.val.Volume)[i]), sigma0_v)

(***************************************************************************)
(* Properties of the interactive plots (checked under SpecUI)              *)
(***************************************************************************)
Registered(w) == \E i \in interacts : \E name \in DOMAIN i.kw : i.kw[name] = w

\* every plot whose sliders are registered shows the model for their values
Displayed ==
    /\ Registered("smc_slider@216") =>
          lines.line =
              bare_soil_model(globals.thetas_rad, sliders["smc_slider@216"])
    /\ Registered("tau_slider@358") =>
          LET terms == cloud_model(globals.thetas_rad,
                                   sliders["smc_slider@360"],
                                   sliders["alpha_slider@359"],
                                   sliders["tau_slider@358"])
          IN /\ lines.sigma0_canopy_plot = terms.Canopy
             /\ lines.sigma0_volume_plot = terms.Volume
             /\ lines.sigma0_soil_plot = terms.Soil

Moved(w) == w \in DOMAIN sliders /\ sliders'[w] # sliders[w]

\* a step that moves a slider of one plot leaves the lines of the other alone
OtherPlotUntouched ==
    /\ Moved("smc_slider@216") =>
          UNCHANGED <<lines.sigma0_canopy_plot, lines.sigma0_volume_plot,
                      lines.sigma0_soil_plot>>
    /\ (Moved("tau_slider@358") \/ Moved("alpha_slider@359")
           \/ Moved("smc_slider@360")) =>
          UNCHANGED lines.line

\* C10: after every slider event, in every order, the y-data of the Canopy,
\* Volume and Soil lines is cloud_model for the current values of the cloud
\* sliders and the y-data of the bare-soil line is bare_soil_model for the
\* current value of its own slider; an event of the bare-soil slider leaves
\* the three cloud-model lines unchanged and an event of a cloud slider leaves
\* the bare-soil line unchanged.
C10_DisplayFollowsSliders == []Displayed /\ [][OtherPlotUntouched]_vars

C10_Witness ==
    /\ pc = "done"
    /\ globals.update = "update@348"
    /\ sliders["smc_slider@216"] = FromInt(MaxSmc)
    /\ sliders["tau_slider@358"] = Dec(6, -2)
    /\ sliders["smc_slider@360"] = One
    /\ lines.line = bare_soil_model(globals.thetas_rad, FromInt(MaxSmc))
    /\ lines.line # bare_soil_model(globals.thetas_rad, Zero)

====
